---- MODULE Spec2Model ----
(***************************************************************************)
(* gocache: the TTL cache of package cache (src/cache/cache.go) with its   *)
(* background gcLoop and its gob snapshots, and the counted byte cache of  *)
(* package caches that the HTTP server is built on.                        *)
(*                                                                         *)
(* Time is the value of time.Now().UnixNano() in abstract ticks.  Every    *)
(* goroutine advances one statement group at a time and the clock may      *)
(* advance between any two steps, also while a lock is held.               *)
(***************************************************************************)
EXTENDS Integers, FiniteSets, Sequences, TLC

\* ---- bounds ----
MaxTime == 4
MaxTTL == 1
MaxInterval == 2

Keys == {"a", "b"}
Nil == "nil"
Values == {"x", "y"}

\* ---- constants of package cache ----
NoExpiration == -1
DefaultExpiration == 0

NoProc == "none"
GC == "gc"

Durations == {NoExpiration, DefaultExpiration} \cup (1..MaxTTL)

VARIABLES
    now,                \* time.Now().UnixNano(), in ticks
    defaultExpiration,  \* Cache.defaultExpiration
    gcInterval,         \* Cache.gcInterval
    items,              \* Cache.items: a map, i.e. a function on the present keys
    mu,                 \* Cache.mu: [w |-> writer or NoProc, r |-> set of readers]
    th,                 \* the calling goroutines: operation, position, arguments, locals, results
    gcpc,               \* position of the gcLoop goroutine
    gcNow,              \* the local now of the DeleteExpired that gcLoop calls
    tickAt,             \* instant of the ticker's next tick, 0 when no ticker is running
    tickC,              \* ticker.C holds a tick (a channel with a buffer of one)
    file,               \* the stream Save writes and Load reads: a sequence of gob messages
    saved,              \* history: <<the entries the last Save had to write>>, <<>> before any
    run,                \* history: 1 in the process that wrote file, 2 after a restart
    data,               \* caches.Cache.data
    count,              \* caches.Cache.count
    lock                \* caches.Cache.lock

vars == <<now, defaultExpiration, gcInterval, items, mu, th, gcpc, gcNow,
          tickAt, tickC, file, saved, run, data, count, lock>>

cfgVars == <<defaultExpiration, gcInterval>>
gcVars == <<gcpc, gcNow, tickAt, tickC>>
snapVars == <<file, saved, run>>
cachesVars == <<data, count, lock>>

\* ---- maps ----
EmptyMap == [x \in {} |-> Nil]

Put(m, k, it) == [x \in (DOMAIN m) \cup {k} |-> IF x = k THEN it ELSE m[x]]

\* delete(c.items, key)
delete(m, k) == [x \in (DOMAIN m) \ {k} |-> m[x]]

\* ---- Item ----
Item(v, e) == [Object |-> v, Expiration |-> e]

\* Expired with the deadline itself counted as expired
ExpiredAtDeadline(item, n) ==
    IF item.Expiration = 0 THEN FALSE ELSE n >= item.Expiration

\* Item.Expired, with n the value time.Now().UnixNano() returns
Expired(item, n) ==
    IF item.Expiration = 0 THEN FALSE ELSE n > item.Expiration

\* the expiration computed without the fallback to c.defaultExpiration
ExpireNoDefault(d, n) == IF d > 0 THEN n + d ELSE 0

\* the expiration Set and set compute from the duration d at instant n
Expire(d, n) ==
    LET dd == IF d = DefaultExpiration THEN defaultExpiration ELSE d
    IN  IF dd > 0 THEN n + dd ELSE 0

\* Cache.get: the lookup without locking, also the body of Get
get(m, k, n) ==
    IF k \notin DOMAIN m THEN [v |-> Nil, found |-> FALSE]
    ELSE IF Expired(m[k], n) THEN [v |-> Nil, found |-> FALSE]
    ELSE [v |-> m[k].Object, found |-> TRUE]

\* the loop of DeleteExpired that also removes an entry at its deadline
SweepAtDeadline(m, n) ==
    LET keep == {k \in DOMAIN m : ~(m[k].Expiration > 0 /\ n >= m[k].Expiration)}
    IN  [k \in keep |-> m[k]]

\* the loop of DeleteExpired without the comparison with the clock
SweepTimed(m, n) ==
    LET keep == {k \in DOMAIN m : ~(m[k].Expiration > 0)}
    IN  [k \in keep |-> m[k]]

\* the loop of DeleteExpired, with n its local now
Sweep(m, n) ==
    LET keep == {k \in DOMAIN m : ~(m[k].Expiration > 0 /\ n > m[k].Expiration)}
    IN  [k \in keep |-> m[k]]

\* ---- the gob codec ----
\* an Item whose Object is not sent at all
EncodeItemNoObject(it) ==
    LET sent == {f \in {"Expiration"} : it.Expiration # 0}
    IN  [f \in sent |-> it.Expiration]

\* gob sends the fields of a struct that are not zero; a nil interface is not sent
EncodeItem(it) ==
    LET sent == {f \in {"Object", "Expiration"} :
                    IF f = "Object" THEN it.Object # Nil ELSE it.Expiration # 0}
    IN  [f \in sent |-> IF f = "Object" THEN it.Object ELSE it.Expiration]

\* enc.Encode(&c.items): one message holding every element of the map
Encode(m) == [k \in DOMAIN m |-> EncodeItem(m[k])]

\* a field that was not sent keeps the zero value of the decoded Item
DecodeItem(w) ==
    Item(IF "Object" \in DOMAIN w THEN w["Object"] ELSE Nil,
         IF "Expiration" \in DOMAIN w THEN w["Expiration"] ELSE 0)

\* dec.Decode(&items) into the empty map
Decode(msg) == [k \in DOMAIN msg |-> DecodeItem(msg[k])]

\* gob.Register(v.Object) panics on a nil interface value
Registers(m) == \A k \in DOMAIN m : m[k].Object # Nil

\* Load that replaces whatever entry the cache holds
MergeKeyAlways(cur, m, k, n) == Put(cur, k, m[k])

\* the body of Load's loop for the key k of the decoded map m
MergeKey(cur, m, k, n) ==
    IF k \notin DOMAIN cur \/ Expired(cur[k], n) THEN Put(cur, k, m[k]) ELSE cur

\* ---- goroutines ----
Idle == [op |-> "none", pc |-> "idle", k |-> "", v |-> Nil, d |-> 0, e |-> 0,
         m |-> EmptyMap, rv |-> Nil, ok |-> FALSE, err |-> "", n |-> 0]

Free(t) == th[t].pc \in {"idle", "done"}

\* a panic in the gcLoop goroutine ends the process
Alive == gcpc # "panic"

Begin(t, o, p, k, v, d, e) ==
    th' = [th EXCEPT ![t] = [Idle EXCEPT !.op = o, !.pc = p, !.k = k, !.v = v,
                                         !.d = d, !.e = e]]

\* the call returns: its arguments stay visible, its locals are dropped
Return(t, rv, ok, err, n) ==
    th' = [th EXCEPT ![t] = [Idle EXCEPT !.op = th[t].op, !.pc = "done", !.k = th[t].k,
                                         !.v = th[t].v, !.rv = rv, !.ok = ok,
                                         !.err = err, !.n = n]]

At(t, o, p) == th[t].op = o /\ th[t].pc = p

Goto(t, p) == th' = [th EXCEPT ![t].pc = p]

\* ---- sync.RWMutex ----
MuFree == [w |-> NoProc, r |-> {}]

\* a Lock that does not wait for the readers to leave
LockIgnoresReaders(t) ==
    /\ Alive
    /\ th[t].pc = "Lock"
    /\ mu.w = NoProc
    /\ mu' = [mu EXCEPT !.w = t]
    /\ Goto(t, "cs")
    /\ UNCHANGED <<now, cfgVars, items, gcVars, snapVars, cachesVars>>

\* c.mu.Lock() by a calling goroutine
Lock(t) ==
    /\ Alive
    /\ th[t].pc = "Lock"
    /\ mu.w = NoProc /\ mu.r = {}
    /\ mu' = [mu EXCEPT !.w = t]
    /\ Goto(t, "cs")
    /\ UNCHANGED <<now, cfgVars, items, gcVars, snapVars, cachesVars>>

\* an RLock that does not wait for the writer to leave
RLockIgnoresWriter(t) ==
    /\ Alive
    /\ th[t].pc = "RLock"
    /\ mu' = [mu EXCEPT !.r = mu.r \cup {t}]
    /\ Goto(t, "cs")
    /\ UNCHANGED <<now, cfgVars, items, gcVars, snapVars, cachesVars>>

\* c.mu.RLock()
RLock(t) ==
    /\ Alive
    /\ th[t].pc = "RLock"
    /\ mu.w = NoProc
    /\ mu' = [mu EXCEPT !.r = mu.r \cup {t}]
    /\ Goto(t, "cs")
    /\ UNCHANGED <<now, cfgVars, items, gcVars, snapVars, cachesVars>>

Unlocked(t) == [mu EXCEPT !.w = NoProc]
RUnlocked(t) == [mu EXCEPT !.r = mu.r \ {t}]

\* ---- Set ----
\* the call and the computation of e from the clock, before the lock is taken
SetCall(t, k, v, d) ==
    /\ Alive /\ Free(t)
    /\ Begin(t, "Set", "Lock", k, v, d, Expire(d, now))
    /\ UNCHANGED <<now, cfgVars, items, mu, gcVars, snapVars, cachesVars>>

SetBody(t) ==
    /\ Alive /\ At(t, "Set", "cs")
    /\ items' = Put(items, th[t].k, Item(th[t].v, th[t].e))
    /\ mu' = Unlocked(t)
    /\ Return(t, Nil, FALSE, "", 0)
    /\ UNCHANGED <<now, cfgVars, gcVars, snapVars, cachesVars>>

\* ---- Add ----
AddCall(t, k, v, d) ==
    /\ Alive /\ Free(t)
    /\ Begin(t, "Add", "Lock", k, v, d, 0)
    /\ UNCHANGED <<now, cfgVars, items, mu, gcVars, snapVars, cachesVars>>

\* Add with the check and the write under two acquisitions of the lock
AddGetReleases(t) ==
    /\ Alive /\ At(t, "Add", "cs")
    /\ IF get(items, th[t].k, now).found
       THEN /\ mu' = Unlocked(t)
            /\ Return(t, Nil, FALSE, "exists", 0)
       ELSE /\ mu' = Unlocked(t)
            /\ Goto(t, "set")
    /\ UNCHANGED <<now, cfgVars, items, gcVars, snapVars, cachesVars>>

\* Add that takes any present entry, expired or not, as existing
AddGetPresent(t) ==
    /\ Alive /\ At(t, "Add", "cs")
    /\ IF th[t].k \in DOMAIN items
       THEN /\ mu' = Unlocked(t)
            /\ Return(t, Nil, FALSE, "exists", 0)
       ELSE /\ mu' = mu
            /\ Goto(t, "set")
    /\ UNCHANGED <<now, cfgVars, items, gcVars, snapVars, cachesVars>>

\* Add whose error return does not unlock
AddGetKeepsLock(t) ==
    /\ Alive /\ At(t, "Add", "cs")
    /\ IF get(items, th[t].k, now).found
       THEN /\ mu' = mu
            /\ Return(t, Nil, FALSE, "exists", 0)
       ELSE /\ mu' = mu
            /\ Goto(t, "set")
    /\ UNCHANGED <<now, cfgVars, items, gcVars, snapVars, cachesVars>>

\* _, found := c.get(k) and the early return when found
AddGet(t) ==
    /\ Alive /\ At(t, "Add", "cs")
    /\ IF get(items, th[t].k, now).found
       THEN /\ mu' = Unlocked(t)
            /\ Return(t, Nil, FALSE, "exists", 0)
       ELSE /\ mu' = mu
            /\ Goto(t, "set")
    /\ UNCHANGED <<now, cfgVars, items, gcVars, snapVars, cachesVars>>

\* c.set(k, v, d); c.mu.Unlock(); return nil
AddSet(t) ==
    /\ Alive /\ At(t, "Add", "set")
    /\ items' = Put(items, th[t].k, Item(th[t].v, Expire(th[t].d, now)))
    /\ mu' = Unlocked(t)
    /\ Return(t, Nil, TRUE, "", 0)
    /\ UNCHANGED <<now, cfgVars, gcVars, snapVars, cachesVars>>

\* ---- Update ----
UpdateCall(t, k, v, d) ==
    /\ Alive /\ Free(t)
    /\ Begin(t, "Update", "Lock", k, v, d, 0)
    /\ UNCHANGED <<now, cfgVars, items, mu, gcVars, snapVars, cachesVars>>

\* Update that takes any present entry, expired or not, as existing
UpdateGetPresent(t) ==
    /\ Alive /\ At(t, "Update", "cs")
    /\ IF th[t].k \notin DOMAIN items
       THEN /\ mu' = Unlocked(t)
            /\ Return(t, Nil, FALSE, "notfound", 0)
       ELSE /\ mu' = mu
            /\ Goto(t, "set")
    /\ UNCHANGED <<now, cfgVars, items, gcVars, snapVars, cachesVars>>

UpdateGet(t) ==
    /\ Alive /\ At(t, "Update", "cs")
    /\ IF ~get(items, th[t].k, now).found
       THEN /\ mu' = Unlocked(t)
            /\ Return(t, Nil, FALSE, "notfound", 0)
       ELSE /\ mu' = mu
            /\ Goto(t, "set")
    /\ UNCHANGED <<now, cfgVars, items, gcVars, snapVars, cachesVars>>

UpdateSet(t) ==
    /\ Alive /\ At(t, "Update", "set")
    /\ items' = Put(items, th[t].k, Item(th[t].v, Expire(th[t].d, now)))
    /\ mu' = Unlocked(t)
    /\ Return(t, Nil, TRUE, "", 0)
    /\ UNCHANGED <<now, cfgVars, gcVars, snapVars, cachesVars>>

\* ---- Get ----
GetCall(t, k) ==
    /\ Alive /\ Free(t)
    /\ Begin(t, "Get", "RLock", k, Nil, 0, 0)
    /\ UNCHANGED <<now, cfgVars, items, mu, gcVars, snapVars, cachesVars>>

\* Get that deletes the expired entry it finds
GetBodyEvicts(t) ==
    /\ Alive /\ At(t, "Get", "cs")
    /\ LET r == get(items, th[t].k, now) IN Return(t, r.v, r.found, "", 0)
    /\ items' = IF th[t].k \in DOMAIN items /\ Expired(items[th[t].k], now)
                THEN delete(items, th[t].k) ELSE items
    /\ mu' = RUnlocked(t)
    /\ UNCHANGED <<now, cfgVars, gcVars, snapVars, cachesVars>>

GetBody(t) ==
    /\ Alive /\ At(t, "Get", "cs")
    /\ LET r == get(items, th[t].k, now) IN Return(t, r.v, r.found, "", 0)
    /\ mu' = RUnlocked(t)
    /\ UNCHANGED <<now, cfgVars, items, gcVars, snapVars, cachesVars>>

\* ---- Delete ----
DeleteCall(t, k) ==
    /\ Alive /\ Free(t)
    /\ Begin(t, "Delete", "Lock", k, Nil, 0, 0)
    /\ UNCHANGED <<now, cfgVars, items, mu, gcVars, snapVars, cachesVars>>

DeleteBody(t) ==
    /\ Alive /\ At(t, "Delete", "cs")
    /\ items' = delete(items, th[t].k)
    /\ mu' = Unlocked(t)
    /\ Return(t, Nil, FALSE, "", 0)
    /\ UNCHANGED <<now, cfgVars, gcVars, snapVars, cachesVars>>

\* ---- DeleteExpired, called directly ----
\* now := time.Now().UnixNano(), before the lock is taken
DeleteExpiredCall(t) ==
    /\ Alive /\ Free(t)
    /\ Begin(t, "DeleteExpired", "Lock", "", Nil, 0, now)
    /\ UNCHANGED <<now, cfgVars, items, mu, gcVars, snapVars, cachesVars>>

\* DeleteExpired that leaves its loop after the first entry it deletes
DeleteExpiredBodyFirstOnly(t) ==
    /\ Alive /\ At(t, "DeleteExpired", "cs")
    /\ LET gone == {k \in DOMAIN items :
                       items[k].Expiration > 0 /\ th[t].e > items[k].Expiration}
       IN  items' = IF gone = {} THEN items
                    ELSE delete(items, CHOOSE k \in gone : TRUE)
    /\ mu' = Unlocked(t)
    /\ Return(t, Nil, FALSE, "", 0)
    /\ UNCHANGED <<now, cfgVars, gcVars, snapVars, cachesVars>>

DeleteExpiredBody(t) ==
    /\ Alive /\ At(t, "DeleteExpired", "cs")
    /\ items' = Sweep(items, th[t].e)
    /\ mu' = Unlocked(t)
    /\ Return(t, Nil, FALSE, "", 0)
    /\ UNCHANGED <<now, cfgVars, gcVars, snapVars, cachesVars>>

\* ---- Count ----
CountCall(t) ==
    /\ Alive /\ Free(t)
    /\ Begin(t, "Count", "RLock", "", Nil, 0, 0)
    /\ UNCHANGED <<now, cfgVars, items, mu, gcVars, snapVars, cachesVars>>

CountBody(t) ==
    /\ Alive /\ At(t, "Count", "cs")
    /\ Return(t, Nil, FALSE, "", Cardinality(DOMAIN items))
    /\ mu' = RUnlocked(t)
    /\ UNCHANGED <<now, cfgVars, items, gcVars, snapVars, cachesVars>>

\* ---- Flush ----
FlushCall(t) ==
    /\ Alive /\ Free(t)
    /\ Begin(t, "Flush", "Lock", "", Nil, 0, 0)
    /\ UNCHANGED <<now, cfgVars, items, mu, gcVars, snapVars, cachesVars>>

\* Flush that removes one key per call
FlushBodyOneKey(t) ==
    /\ Alive /\ At(t, "Flush", "cs")
    /\ items' = IF DOMAIN items = {} THEN items
                ELSE delete(items, CHOOSE k \in DOMAIN items : TRUE)
    /\ mu' = Unlocked(t)
    /\ Return(t, Nil, FALSE, "", 0)
    /\ UNCHANGED <<now, cfgVars, gcVars, snapVars, cachesVars>>

FlushBody(t) ==
    /\ Alive /\ At(t, "Flush", "cs")
    /\ items' = EmptyMap
    /\ mu' = Unlocked(t)
    /\ Return(t, Nil, FALSE, "", 0)
    /\ UNCHANGED <<now, cfgVars, gcVars, snapVars, cachesVars>>

\* ---- Save ----
\* the writer is created empty (os.Create in SaveToFile) and Save(w) is entered
SaveCall(t) ==
    /\ Alive /\ Free(t)
    /\ Begin(t, "Save", "RLock", "", Nil, 0, 0)
    /\ file' = <<>>
    /\ saved' = <<>>
    /\ UNCHANGED <<now, cfgVars, items, mu, gcVars, run, cachesVars>>

\* Save whose RUnlock is not deferred: the panic of gob.Register skips it
SaveBodyKeepsLock(t) ==
    /\ Alive /\ At(t, "Save", "cs")
    /\ IF Registers(items)
       THEN /\ file' = <<Encode(items)>>
            /\ Return(t, Nil, TRUE, "", 0)
            /\ mu' = RUnlocked(t)
       ELSE /\ file' = file
            /\ Return(t, Nil, FALSE, "gob", 0)
            /\ mu' = mu
    /\ saved' = <<items>>
    /\ UNCHANGED <<now, cfgVars, items, gcVars, run, cachesVars>>

\* under the read lock: register every Object, encode the map; a panic of
\* gob.Register is recovered into the error after the deferred RUnlock ran
SaveBody(t) ==
    /\ Alive /\ At(t, "Save", "cs")
    /\ IF Registers(items)
       THEN /\ file' = <<Encode(items)>>
            /\ Return(t, Nil, TRUE, "", 0)
       ELSE /\ file' = file
            /\ Return(t, Nil, FALSE, "gob", 0)
    /\ saved' = <<items>>
    /\ mu' = RUnlocked(t)
    /\ UNCHANGED <<now, cfgVars, items, gcVars, run, cachesVars>>

\* ---- Load ----
\* dec.Decode(&items) before any locking; a decoding error is returned at once
LoadCall(t) ==
    /\ Alive /\ Free(t)
    /\ IF Len(file) = 0
       THEN th' = [th EXCEPT ![t] = [Idle EXCEPT !.op = "Load", !.pc = "done",
                                                 !.err = "EOF"]]
       ELSE th' = [th EXCEPT ![t] = [Idle EXCEPT !.op = "Load", !.pc = "Lock",
                                                 !.m = Decode(file[1])]]
    /\ UNCHANGED <<now, cfgVars, items, mu, gcVars, snapVars, cachesVars>>

\* one iteration of for k, v := range items, in the order the map yields
LoadMerge(t, k) ==
    /\ Alive /\ At(t, "Load", "cs")
    /\ k \in DOMAIN th[t].m
    /\ items' = MergeKey(items, th[t].m, k, now)
    /\ th' = [th EXCEPT ![t].m = delete(th[t].m, k)]
    /\ UNCHANGED <<now, cfgVars, mu, gcVars, snapVars, cachesVars>>

\* the loop is over: the deferred Unlock, return err (nil)
LoadDone(t) ==
    /\ Alive /\ At(t, "Load", "cs")
    /\ DOMAIN th[t].m = {}
    /\ mu' = Unlocked(t)
    /\ Return(t, Nil, TRUE, "", 0)
    /\ UNCHANGED <<now, cfgVars, items, gcVars, snapVars, cachesVars>>

\* StopGc on a channel with a buffer: the send returns at once
StopGcCallBuffered(t) ==
    /\ Alive /\ Free(t)
    /\ th' = [th EXCEPT ![t] = [Idle EXCEPT !.op = "StopGc", !.pc = "done"]]
    /\ UNCHANGED <<now, cfgVars, items, mu, gcVars, snapVars, cachesVars>>

\* ---- StopGc: c.stopGc <- true on the unbuffered channel ----
StopGcCall(t) ==
    /\ Alive /\ Free(t)
    /\ Begin(t, "StopGc", "send", "", Nil, 0, 0)
    /\ UNCHANGED <<now, cfgVars, items, mu, gcVars, snapVars, cachesVars>>

\* ---- gcLoop ----
\* ticker := time.NewTicker(c.gcInterval), which panics unless the interval is positive
GcStart ==
    /\ gcpc = "start"
    /\ IF gcInterval <= 0
       THEN gcpc' = "panic" /\ tickAt' = tickAt
       ELSE gcpc' = "select" /\ tickAt' = now + gcInterval
    /\ UNCHANGED <<now, cfgVars, items, mu, th, gcNow, tickC, snapVars, cachesVars>>

\* case <-ticker.C: c.DeleteExpired() is entered and reads the clock
GcTick ==
    /\ gcpc = "select" /\ tickC
    /\ tickC' = FALSE
    /\ gcNow' = now
    /\ gcpc' = "Lock"
    /\ UNCHANGED <<now, cfgVars, items, mu, th, tickAt, snapVars, cachesVars>>

\* c.mu.Lock() of that DeleteExpired
GcLock ==
    /\ gcpc = "Lock"
    /\ mu.w = NoProc /\ mu.r = {}
    /\ mu' = [mu EXCEPT !.w = GC]
    /\ gcpc' = "cs"
    /\ UNCHANGED <<now, cfgVars, items, th, gcNow, tickAt, tickC, snapVars, cachesVars>>

\* its loop and the deferred Unlock; gcLoop is back at the select
GcSweep ==
    /\ gcpc = "cs"
    /\ items' = Sweep(items, gcNow)
    /\ mu' = [mu EXCEPT !.w = NoProc]
    /\ gcpc' = "select"
    /\ gcNow' = 0
    /\ UNCHANGED <<now, cfgVars, th, tickAt, tickC, snapVars, cachesVars>>

\* the stop case leaves the select but not the loop
GcStopKeepsRunning(t) ==
    /\ gcpc = "select"
    /\ At(t, "StopGc", "send")
    /\ gcpc' = "select"
    /\ tickAt' = 0
    /\ Return(t, Nil, FALSE, "", 0)
    /\ UNCHANGED <<now, cfgVars, items, mu, gcNow, tickC, snapVars, cachesVars>>

\* case <-c.stopGc: the rendezvous with a sender; ticker.Stop(); return
GcStop(t) ==
    /\ gcpc = "select"
    /\ At(t, "StopGc", "send")
    /\ gcpc' = "stopped"
    /\ tickAt' = 0
    /\ Return(t, Nil, FALSE, "", 0)
    /\ UNCHANGED <<now, cfgVars, items, mu, gcNow, tickC, snapVars, cachesVars>>

\* ---- the clock and the ticker ----
\* one tick of time passes; a running ticker sends on C every gcInterval and
\* drops the tick when C is full
Tick ==
    /\ Alive
    /\ now < MaxTime
    /\ now' = now + 1
    /\ IF tickAt = now + 1
       THEN tickC' = TRUE /\ tickAt' = tickAt + gcInterval
       ELSE UNCHANGED <<tickC, tickAt>>
    /\ UNCHANGED <<cfgVars, items, mu, th, gcpc, gcNow, snapVars, cachesVars>>

\* ---- the process ----
\* cache.NewCache(defaultExpiration, gcInterval): an empty map, gcLoop spawned
NewCache(D, I) ==
    /\ defaultExpiration \in D
    /\ gcInterval \in I
    /\ items = EmptyMap
    /\ mu = MuFree
    /\ gcpc = "start"
    /\ gcNow = 0 /\ tickAt = 0 /\ tickC = FALSE

\* the program ends and is started again: a new cache, the file stays
Restart ==
    /\ Alive /\ run = 1
    /\ \A t \in DOMAIN th : Free(t)
    /\ run' = 2
    /\ items' = EmptyMap
    /\ mu' = MuFree
    /\ th' = [t \in DOMAIN th |-> Idle]
    /\ gcpc' = "start"
    /\ gcNow' = 0 /\ tickAt' = 0 /\ tickC' = FALSE
    /\ UNCHANGED <<now, cfgVars, file, saved, cachesVars>>

\* ---- package caches ----
LockFree == [w |-> NoProc, r |-> {}]

\* c.lock.Lock()
CLock(t) ==
    /\ th[t].pc = "Lock"
    /\ lock.w = NoProc /\ lock.r = {}
    /\ lock' = [lock EXCEPT !.w = t]
    /\ Goto(t, "cs")
    /\ UNCHANGED <<now, cfgVars, items, mu, gcVars, snapVars, data, count>>

\* c.lock.RLock()
CRLock(t) ==
    /\ th[t].pc = "RLock"
    /\ lock.w = NoProc
    /\ lock' = [lock EXCEPT !.r = lock.r \cup {t}]
    /\ Goto(t, "cs")
    /\ UNCHANGED <<now, cfgVars, items, mu, gcVars, snapVars, data, count>>

CSetCall(t, k, v) ==
    /\ Free(t)
    /\ Begin(t, "Set", "Lock", k, v, 0, 0)
    /\ UNCHANGED <<now, cfgVars, items, mu, gcVars, snapVars, cachesVars>>

\* Set that counts every call
CSetBodyCountsAll(t) ==
    /\ At(t, "Set", "cs")
    /\ count' = count + 1
    /\ data' = Put(data, th[t].k, th[t].v)
    /\ lock' = [lock EXCEPT !.w = NoProc]
    /\ Return(t, Nil, FALSE, "", 0)
    /\ UNCHANGED <<now, cfgVars, items, mu, gcVars, snapVars>>

\* utils.Copy yields a slice with the same bytes
CSetBody(t) ==
    /\ At(t, "Set", "cs")
    /\ count' = IF th[t].k \notin DOMAIN data THEN count + 1 ELSE count
    /\ data' = Put(data, th[t].k, th[t].v)
    /\ lock' = [lock EXCEPT !.w = NoProc]
    /\ Return(t, Nil, FALSE, "", 0)
    /\ UNCHANGED <<now, cfgVars, items, mu, gcVars, snapVars>>

CGetCall(t, k) ==
    /\ Free(t)
    /\ Begin(t, "Get", "RLock", k, Nil, 0, 0)
    /\ UNCHANGED <<now, cfgVars, items, mu, gcVars, snapVars, cachesVars>>

CGetBody(t) ==
    /\ At(t, "Get", "cs")
    /\ IF th[t].k \in DOMAIN data
       THEN Return(t, data[th[t].k], TRUE, "", 0)
       ELSE Return(t, Nil, FALSE, "", 0)
    /\ lock' = [lock EXCEPT !.r = lock.r \ {t}]
    /\ UNCHANGED <<now, cfgVars, items, mu, gcVars, snapVars, data, count>>

CDeleteCall(t, k) ==
    /\ Free(t)
    /\ Begin(t, "Delete", "Lock", k, Nil, 0, 0)
    /\ UNCHANGED <<now, cfgVars, items, mu, gcVars, snapVars, cachesVars>>

CDeleteBody(t) ==
    /\ At(t, "Delete", "cs")
    /\ IF th[t].k \in DOMAIN data
       THEN count' = count - 1 /\ data' = delete(data, th[t].k)
       ELSE UNCHANGED <<count, data>>
    /\ lock' = [lock EXCEPT !.w = NoProc]
    /\ Return(t, Nil, FALSE, "", 0)
    /\ UNCHANGED <<now, cfgVars, items, mu, gcVars, snapVars>>

CCountCall(t) ==
    /\ Free(t)
    /\ Begin(t, "Count", "RLock", "", Nil, 0, 0)
    /\ UNCHANGED <<now, cfgVars, items, mu, gcVars, snapVars, cachesVars>>

CCountBody(t) ==
    /\ At(t, "Count", "cs")
    /\ Return(t, Nil, FALSE, "", count)
    /\ lock' = [lock EXCEPT !.r = lock.r \ {t}]
    /\ UNCHANGED <<now, cfgVars, items, mu, gcVars, snapVars, data, count>>

\* caches.NewCache()
CNewCache ==
    /\ data = EmptyMap
    /\ count = 0
    /\ lock = LockFree

\* ---- specifications ----
\* a program on package cache with the calling goroutines T
InitCache(T, D, I) ==
    /\ now = 1
    /\ th = [t \in T |-> Idle]
    /\ NewCache(D, I)
    /\ file = <<>> /\ saved = <<>> /\ run = 1
    /\ CNewCache

\* the interval of a gcLoop that never ticks before the clock stops
Quiet == {MaxTime}

\* one caller, the gcLoop and the clock; every duration and every interval
Init == InitCache({"t1"}, 0..MaxTTL, 0..MaxInterval)

Next ==
    \/ \E t \in DOMAIN th : Lock(t)
    \/ \E t \in DOMAIN th : RLock(t)
    \/ \E t \in DOMAIN th, k \in Keys, v \in {"x"}, d \in Durations : SetCall(t, k, v, d)
    \/ \E t \in DOMAIN th : SetBody(t)
    \/ \E t \in DOMAIN th, k \in Keys, v \in {"x"}, d \in Durations : AddCall(t, k, v, d)
    \/ \E t \in DOMAIN th : AddGet(t)
    \/ \E t \in DOMAIN th : AddSet(t)
    \/ \E t \in DOMAIN th, k \in Keys, v \in {"x"}, d \in Durations : UpdateCall(t, k, v, d)
    \/ \E t \in DOMAIN th : UpdateGet(t)
    \/ \E t \in DOMAIN th : UpdateSet(t)
    \/ \E t \in DOMAIN th, k \in Keys : GetCall(t, k)
    \/ \E t \in DOMAIN th : GetBody(t)
    \/ \E t \in DOMAIN th, k \in Keys : DeleteCall(t, k)
    \/ \E t \in DOMAIN th : DeleteBody(t)
    \/ \E t \in DOMAIN th : DeleteExpiredCall(t)
    \/ \E t \in DOMAIN th : DeleteExpiredBody(t)
    \/ \E t \in DOMAIN th : CountCall(t)
    \/ \E t \in DOMAIN th : CountBody(t)
    \/ \E t \in DOMAIN th : FlushCall(t)
    \/ \E t \in DOMAIN th : FlushBody(t)
    \/ \E t \in DOMAIN th : StopGcCall(t)
    \/ \E t \in DOMAIN th : GcStop(t)
    \/ GcStart
    \/ GcTick
    \/ GcLock
    \/ GcSweep
    \/ Tick

Spec == Init /\ [][Next]_vars

\* one caller and a gcLoop that stays at its select: the operations one after another
InitSeq == InitCache({"t1"}, {0}, Quiet)

NextSeq ==
    \/ \E t \in DOMAIN th : Lock(t)
    \/ \E t \in DOMAIN th : RLock(t)
    \/ \E t \in DOMAIN th, k \in Keys, v \in Values, d \in Durations : SetCall(t, k, v, d)
    \/ \E t \in DOMAIN th : SetBody(t)
    \/ \E t \in DOMAIN th, k \in Keys, v \in Values, d \in Durations : AddCall(t, k, v, d)
    \/ \E t \in DOMAIN th : AddGet(t)
    \/ \E t \in DOMAIN th : AddSet(t)
    \/ \E t \in DOMAIN th, k \in Keys, v \in Values, d \in Durations : UpdateCall(t, k, v, d)
    \/ \E t \in DOMAIN th : UpdateGet(t)
    \/ \E t \in DOMAIN th : UpdateSet(t)
    \/ \E t \in DOMAIN th, k \in Keys : GetCall(t, k)
    \/ \E t \in DOMAIN th : GetBody(t)
    \/ \E t \in DOMAIN th, k \in Keys : DeleteCall(t, k)
    \/ \E t \in DOMAIN th : DeleteBody(t)
    \/ \E t \in DOMAIN th : CountCall(t)
    \/ \E t \in DOMAIN th : CountBody(t)
    \/ \E t \in DOMAIN th : FlushCall(t)
    \/ \E t \in DOMAIN th : FlushBody(t)
    \/ GcStart
    \/ Tick

SpecSeq == InitSeq /\ [][NextSeq]_vars

\* the race of Add: three goroutines that each call Add("a", v, NoExpiration) once
\* when "a" has no live entry.  Before the race they store values with Set; a Set
\* called during the race stores Nil and is the last call of its goroutine
InitAdd == InitCache({"t1", "t2", "t3"}, {0}, Quiet)

Racing == \E u \in DOMAIN th : th[u].op = "Add"

RacingSet(t) == th[t].op = "Set" /\ th[t].v = Nil

SetupSet(t, k, d) == ~Racing /\ SetCall(t, k, "x", d)

RaceSet(t, k, d) ==
    /\ Racing /\ th[t].op # "Add" /\ ~RacingSet(t)
    /\ SetCall(t, k, Nil, d)

RaceAdd(t, k, v) ==
    /\ th[t].op # "Add" /\ ~RacingSet(t)
    /\ \A u \in DOMAIN th : th[u].op = "Set" /\ ~RacingSet(u) => th[u].pc = "done"
    /\ ~get(items, k, now).found
    /\ AddCall(t, k, v, NoExpiration)

NextAdd ==
    \/ \E t \in DOMAIN th : Lock(t)
    \/ \E t \in DOMAIN th, d \in {NoExpiration} \cup (1..MaxTTL) : SetupSet(t, "a", d)
    \/ \E t \in DOMAIN th, d \in {NoExpiration} \cup (1..MaxTTL) : RaceSet(t, "a", d)
    \/ \E t \in DOMAIN th : SetBody(t)
    \/ \E t \in DOMAIN th, v \in Values : RaceAdd(t, "a", v)
    \/ \E t \in DOMAIN th : AddGet(t)
    \/ \E t \in DOMAIN th : AddSet(t)
    \/ GcStart
    \/ Tick

SpecAdd == InitAdd /\ [][NextAdd]_vars

\* two callers that read, write and flush entries that never expire
InitRace == InitCache({"t1", "t2"}, {0}, Quiet)

NextRace ==
    \/ \E t \in DOMAIN th : Lock(t)
    \/ \E t \in DOMAIN th : RLock(t)
    \/ \E t \in DOMAIN th, k \in Keys : SetCall(t, k, "x", NoExpiration)
    \/ \E t \in DOMAIN th : SetBody(t)
    \/ \E t \in DOMAIN th, k \in Keys : GetCall(t, k)
    \/ \E t \in DOMAIN th : GetBody(t)
    \/ \E t \in DOMAIN th : CountCall(t)
    \/ \E t \in DOMAIN th : CountBody(t)
    \/ \E t \in DOMAIN th : FlushCall(t)
    \/ \E t \in DOMAIN th : FlushBody(t)
    \/ GcStart

SpecRace == InitRace /\ [][NextRace]_vars

\* snapshots: one caller saves and loads; after a restart the new process only
\* loads and reads
InitSnap == InitCache({"t1"}, {0}, Quiet)

NextSnap ==
    \/ \E t \in DOMAIN th : Lock(t)
    \/ \E t \in DOMAIN th : RLock(t)
    \/ \E t \in DOMAIN th, k \in Keys, v \in Values \cup {Nil} :
          run = 1 /\ SetCall(t, k, v, NoExpiration)
    \/ \E t \in DOMAIN th, k \in Keys : run = 1 /\ SetCall(t, k, "x", 1)
    \/ \E t \in DOMAIN th : SetBody(t)
    \/ \E t \in DOMAIN th, k \in Keys : run = 2 /\ GetCall(t, k)
    \/ \E t \in DOMAIN th : GetBody(t)
    \/ \E t \in DOMAIN th : run = 2 /\ CountCall(t)
    \/ \E t \in DOMAIN th : CountBody(t)
    \/ \E t \in DOMAIN th : run = 1 /\ SaveCall(t)
    \/ \E t \in DOMAIN th : SaveBody(t)
    \/ \E t \in DOMAIN th : LoadCall(t)
    \/ \E t \in DOMAIN th, k \in Keys : LoadMerge(t, k)
    \/ \E t \in DOMAIN th : LoadDone(t)
    \/ Restart
    \/ GcStart
    \/ Tick

SpecSnap == InitSnap /\ [][NextSnap]_vars

\* two callers and a gcLoop that sweeps on every tick: Writer changes the entries,
\* Reader reads them, saves them and sweeps them; this program is observed until
\* one tick before MaxTime
Writer == "t1"
Reader == "t2"

InitConc == InitCache({Writer, Reader}, {0}, {1})

NextConc ==
    \/ \E t \in DOMAIN th : Lock(t)
    \/ \E t \in DOMAIN th : RLock(t)
    \/ \E k \in Keys : SetCall(Writer, k, "x", 1)
    \/ SetBody(Writer)
    \/ AddCall(Writer, "a", "x", NoExpiration)
    \/ AddGet(Writer)
    \/ AddSet(Writer)
    \/ UpdateCall(Writer, "a", "x", NoExpiration)
    \/ UpdateGet(Writer)
    \/ UpdateSet(Writer)
    \/ DeleteCall(Writer, "a")
    \/ DeleteBody(Writer)
    \/ FlushCall(Writer)
    \/ FlushBody(Writer)
    \/ LoadCall(Writer)
    \/ \E k \in Keys : LoadMerge(Writer, k)
    \/ LoadDone(Writer)
    \/ GetCall(Reader, "a")
    \/ GetBody(Reader)
    \/ CountCall(Reader)
    \/ CountBody(Reader)
    \/ DeleteExpiredCall(Reader)
    \/ DeleteExpiredBody(Reader)
    \/ SaveCall(Reader)
    \/ SaveBody(Reader)
    \/ GcStart
    \/ GcTick
    \/ GcLock
    \/ GcSweep
    \/ now < MaxTime - 1 /\ Tick

SpecConc == InitConc /\ [][NextConc]_vars

\* the same two callers on the key "a" alone, under a fair scheduler: every
\* goroutine that can take a step is run, sync.RWMutex hands the lock to a
\* goroutine that keeps asking for it, and gcLoop is run like any other goroutine
Acquire(t) == Lock(t) \/ RLock(t)

Body(t) ==
    \/ SetBody(t)
    \/ AddGet(t)
    \/ AddSet(t)
    \/ UpdateGet(t)
    \/ UpdateSet(t)
    \/ GetBody(t)
    \/ DeleteBody(t)
    \/ DeleteExpiredBody(t)
    \/ CountBody(t)
    \/ FlushBody(t)
    \/ SaveBody(t)
    \/ \E k \in Keys : LoadMerge(t, k)
    \/ LoadDone(t)

GcRun == GcStart \/ GcTick \/ GcSweep

NextFair ==
    \/ \E t \in DOMAIN th : Acquire(t)
    \/ \E t \in DOMAIN th : Body(t)
    \/ SetCall(Writer, "a", "x", 1)
    \/ AddCall(Writer, "a", "x", NoExpiration)
    \/ UpdateCall(Writer, "a", "x", NoExpiration)
    \/ DeleteCall(Writer, "a")
    \/ FlushCall(Writer)
    \/ LoadCall(Writer)
    \/ GetCall(Reader, "a")
    \/ CountCall(Reader)
    \/ DeleteExpiredCall(Reader)
    \/ SaveCall(Reader)
    \/ GcRun
    \/ GcLock
    \/ now < MaxTime - 2 /\ Tick

Fairness ==
    /\ \A t \in {Writer, Reader} : SF_vars(Acquire(t)) /\ WF_vars(Body(t))
    /\ WF_vars(GcRun)
    /\ SF_vars(GcLock)

SpecFair == InitConc /\ [][NextFair]_vars /\ Fairness

\* the life of gcLoop: one caller that stores entries and stops the gcLoop, under
\* the fair scheduler; the select of gcLoop takes a case that is ready again and
\* again
InitLife == InitCache({"t1"}, {0}, 1..MaxInterval)

NextLife ==
    \/ Lock("t1")
    \/ \E k \in Keys : SetCall("t1", k, "x", 1)
    \/ SetBody("t1")
    \/ StopGcCall("t1")
    \/ GcStop("t1")
    \/ GcRun
    \/ GcLock
    \/ Tick

FairLife ==
    /\ SF_vars(Lock("t1")) /\ WF_vars(SetBody("t1"))
    /\ WF_vars(GcRun)
    /\ SF_vars(GcLock)
    /\ SF_vars(GcStop("t1"))

SpecLife == InitLife /\ [][NextLife]_vars /\ FairLife

\* the server on package caches with two request goroutines
InitCaches ==
    /\ now = 1
    /\ th = [t \in {"t1", "t2"} |-> Idle]
    /\ CNewCache
    /\ defaultExpiration = 0 /\ gcInterval = 0
    /\ items = EmptyMap /\ mu = MuFree
    /\ gcpc = "none" /\ gcNow = 0 /\ tickAt = 0 /\ tickC = FALSE
    /\ file = <<>> /\ saved = <<>> /\ run = 1

NextCaches ==
    \/ \E t \in DOMAIN th : CLock(t)
    \/ \E t \in DOMAIN th : CRLock(t)
    \/ \E t \in DOMAIN th, k \in Keys, v \in Values : CSetCall(t, k, v)
    \/ \E t \in DOMAIN th : CSetBody(t)
    \/ \E t \in DOMAIN th, k \in Keys : CGetCall(t, k)
    \/ \E t \in DOMAIN th : CGetBody(t)
    \/ \E t \in DOMAIN th, k \in Keys : CDeleteCall(t, k)
    \/ \E t \in DOMAIN th : CDeleteBody(t)
    \/ \E t \in DOMAIN th : CCountCall(t)
    \/ \E t \in DOMAIN th : CCountBody(t)

SpecCaches == InitCaches /\ [][NextCaches]_vars

\* ---- properties ----
StepOf(t) == th'[t] # th[t]

\* an entry for k is present and not expired at instant n
LiveAt(m, k, n) ==
    k \in DOMAIN m /\ (m[k].Expiration = 0 \/ n <= m[k].Expiration)

AddDone(k) == {t \in DOMAIN th : th[t].op = "Add" /\ th[t].pc = "done" /\ th[t].k = k}
AddWon(k) == {t \in AddDone(k) : th[t].ok}

OneAddWon(k) ==
    \E t \in AddWon(k) :
        /\ AddWon(k) = {t}
        /\ \A u \in AddDone(k) \ {t} : th[u].err = "exists"
        /\ k \in DOMAIN items /\ items[k] = Item(th[t].v, 0)

SetDuringRace(k) == \E u \in DOMAIN th : RacingSet(u) /\ th[u].k = k

\* C1 as stated: of the concurrent calls Add(k, v_i, NoExpiration) for a key without
\* a live entry that have returned, exactly one succeeded, the others got "already
\* exists", and the entry holds the value of the successful one -- while no Delete,
\* Flush, Load or sweep touches k (none runs in SpecAdd)
C1_ExactlyOneAdd_Original == \A k \in Keys : AddDone(k) # {} => OneAddWon(k)

\* C1 amended: the same provided no Set (or Update) touches k during the race either
C1_ExactlyOneAdd == \A k \in Keys : AddDone(k) # {} /\ ~SetDuringRace(k) => OneAddWon(k)

C1_Witness ==
    /\ \A t \in DOMAIN th : th[t].op = "Add" /\ th[t].pc = "done" /\ th[t].k = "a"
    /\ Cardinality(AddWon("a")) = 1
    /\ \E t, u \in DOMAIN th : th[t].v # th[u].v

\* C2: Update of a key that is absent or expired returns "does not exist" and leaves
\* the entries, an expired entry for the key included, and their number as they
\* were; no step of an Update adds a key
C2_UpdateRequiresLive ==
    [][\A t \in DOMAIN th :
          /\ (At(t, "Update", "cs") /\ StepOf(t) /\ ~LiveAt(items, th[t].k, now))
                => /\ th'[t].pc = "done" /\ th'[t].err = "notfound" /\ ~th'[t].ok
                   /\ items' = items
                   /\ Cardinality(DOMAIN items') = Cardinality(DOMAIN items)
          /\ (th[t].op = "Update" /\ StepOf(t)) => DOMAIN items' = DOMAIN items]_vars

C2_Witness ==
    \E t \in DOMAIN th :
        /\ At(t, "Update", "done") /\ th[t].err = "notfound"
        /\ th[t].k \in DOMAIN items /\ now > items[th[t].k].Expiration
        /\ items[th[t].k].Expiration > 0

\* C3: Add on a key with a non-expired entry returns "already exists" and leaves the
\* entry as it is; Add on a key whose entry is expired goes on to replace the entry
\* by the new value and expiration and succeeds, and a Get then finds the new value
C3_AddExistsOrReplaces ==
    [][\A t \in DOMAIN th :
          /\ (At(t, "Add", "cs") /\ StepOf(t) /\ LiveAt(items, th[t].k, now))
                => /\ th'[t].pc = "done" /\ th'[t].err = "exists" /\ ~th'[t].ok
                   /\ items' = items
          /\ (At(t, "Add", "cs") /\ StepOf(t) /\ th[t].k \in DOMAIN items
                /\ ~LiveAt(items, th[t].k, now))
                => th'[t].pc = "set" /\ items' = items
          /\ (At(t, "Add", "set") /\ StepOf(t))
                => /\ th'[t].pc = "done" /\ th'[t].ok /\ th'[t].err = ""
                   /\ th[t].k \in DOMAIN items'
                   /\ items'[th[t].k].Object = th[t].v
                   /\ (th[t].d > 0 => items'[th[t].k].Expiration = now + th[t].d)
                   /\ (th[t].d = NoExpiration => items'[th[t].k].Expiration = 0)
                   /\ LiveAt(items', th[t].k, now')
                   /\ \A j \in Keys \ {th[t].k} :
                         /\ j \in DOMAIN items' <=> j \in DOMAIN items
                         /\ j \in DOMAIN items => items'[j] = items[j]]_vars

C3_Witness ==
    \E t \in DOMAIN th :
        /\ At(t, "Add", "set")
        /\ th[t].k \in DOMAIN items
        /\ items[th[t].k].Expiration > 0 /\ now > items[th[t].k].Expiration
        /\ items[th[t].k].Object # th[t].v

\* C4: Set with a positive d at instant t0 stores the expiration t0 + d; Get returns
\* the value and true while the clock is at most the expiration (or the expiration
\* is the zero sentinel) and nil and false once the clock is strictly greater,
\* swept or not
C4_LazyExpiry ==
    [][\A t \in DOMAIN th :
          /\ (Free(t) /\ th'[t].op = "Set" /\ th'[t].pc = "Lock" /\ th'[t].d > 0)
                => th'[t].e = now + th'[t].d
          /\ (At(t, "Set", "cs") /\ StepOf(t))
                => th[t].k \in DOMAIN items' /\ items'[th[t].k] = Item(th[t].v, th[t].e)
          /\ (At(t, "Get", "cs") /\ StepOf(t))
                => IF /\ th[t].k \in DOMAIN items
                      /\ (items[th[t].k].Expiration = 0 \/ now <= items[th[t].k].Expiration)
                   THEN th'[t].ok /\ th'[t].rv = items[th[t].k].Object
                   ELSE ~th'[t].ok /\ th'[t].rv = Nil]_vars

C4_Witness ==
    \E t \in DOMAIN th :
        /\ At(t, "Get", "done") /\ th[t].ok
        /\ th[t].k \in DOMAIN items /\ items[th[t].k].Expiration = now

\* C5: no step of a Get changes the entries; a key leaves the entries only in the
\* critical section of Delete, DeleteExpired (called directly or by gcLoop) or Flush
C5_GetIsReadOnly ==
    [][/\ \A t \in DOMAIN th :
             (th[t].op = "Get" /\ th[t].pc \in {"RLock", "cs"} /\ StepOf(t))
                => items' = items /\ Cardinality(DOMAIN items') = Cardinality(DOMAIN items)
       /\ (\E k \in DOMAIN items : k \notin DOMAIN items')
             => \/ \E t \in DOMAIN th :
                      /\ th[t].pc = "cs" /\ StepOf(t)
                      /\ th[t].op \in {"Delete", "DeleteExpired", "Flush"}
                \/ gcpc = "cs" /\ gcpc' # "cs"]_vars

C5_Witness ==
    \E t \in DOMAIN th :
        /\ At(t, "Get", "done") /\ ~th[t].ok
        /\ th[t].k \in DOMAIN items
        /\ items[th[t].k].Expiration > 0 /\ now > items[th[t].k].Expiration

\* C6 as stated: while the gcLoop runs with interval I, no entry stays in the entries
\* later than I after its expiration instant
C6_SweepWithinInterval_Original ==
    gcpc \in {"select", "Lock", "cs"}
        => \A k \in DOMAIN items :
              items[k].Expiration > 0 => now <= items[k].Expiration + gcInterval

\* C6 amended: the ticker of a running gcLoop offers a tick within every interval;
\* gcLoop starts a sweep only on a tick, the sweep reads the clock then, and when it
\* has the lock it removes exactly the entries whose expiration is earlier than that
\* reading, with no step of a caller
C6_SweepRemovesExpired ==
    /\ [](tickAt > 0 => now < tickAt /\ tickAt <= now + gcInterval)
    /\ [][/\ (gcpc = "select" /\ gcpc' = "Lock") => tickC /\ gcNow' = now
          /\ (gcpc = "cs" /\ gcpc' = "select")
                => /\ th' = th
                   /\ \A k \in DOMAIN items :
                         /\ k \notin DOMAIN items'
                               <=> (items[k].Expiration > 0 /\ items[k].Expiration < gcNow)
                         /\ k \in DOMAIN items' => items'[k] = items[k]
                   /\ DOMAIN items' \subseteq DOMAIN items]_vars

C6_Witness ==
    /\ gcpc = "cs"
    /\ \E k \in DOMAIN items : items[k].Expiration > 0 /\ items[k].Expiration < gcNow
    /\ \A t \in DOMAIN th : th[t].op \notin {"Get", "Delete", "DeleteExpired", "Flush"}

NoExpirations(m) == \A k \in DOMAIN m : m[k].Expiration = 0

\* what Get and Count of the cache return is what they return for the entries m
SameAnswers(m) ==
    /\ \A k \in Keys :
          IF k \in DOMAIN m
          THEN k \in DOMAIN items /\ ~Expired(items[k], now)
               /\ items[k].Object = m[k].Object
          ELSE k \notin DOMAIN items \/ Expired(items[k], now)
    /\ Cardinality(DOMAIN items) = Cardinality(DOMAIN m)

C8_LoadKeepsLive ==
    [][\A t \in DOMAIN th : \A k \in Keys :
          (At(t, "Load", "cs") /\ k \in DOMAIN th[t].m /\ k \notin DOMAIN th'[t].m)
              => /\ k \in DOMAIN items'
                 /\ IF LiveAt(items, k, now)
                    THEN items'[k] = items[k] /\ LiveAt(items', k, now')
                    ELSE items'[k] = th[t].m[k]
                 /\ \A j \in Keys \ {k} :
                       /\ j \in DOMAIN items' <=> j \in DOMAIN items
                       /\ j \in DOMAIN items => items'[j] = items[j]]_vars

C8_Witness ==
    \E t \in DOMAIN th :
        /\ At(t, "Load", "cs") /\ "a" \notin DOMAIN th[t].m
        /\ Len(file) = 1 /\ "a" \in DOMAIN file[1]
        /\ LiveAt(items, "a", now)
        /\ items["a"].Object = "y" /\ Decode(file[1])["a"].Object = "x"

\* C9: count is the number of keys of data in every state; Set adds one exactly when
\* the key was not present, Delete takes one off exactly when it was, and Count
\* returns that number
C9_CountIsSize ==
    /\ [](count = Cardinality(DOMAIN data))
    /\ [][\A t \in DOMAIN th :
             /\ (At(t, "Set", "cs") /\ StepOf(t))
                   => count' = count + (IF th[t].k \in DOMAIN data THEN 0 ELSE 1)
             /\ (At(t, "Delete", "cs") /\ StepOf(t))
                   => count' = count - (IF th[t].k \in DOMAIN data THEN 1 ELSE 0)
             /\ (At(t, "Count", "cs") /\ StepOf(t))
                   => th'[t].n = Cardinality(DOMAIN data)]_vars

C9_Witness ==
    \E t, u \in DOMAIN th :
        /\ t # u /\ At(t, "Set", "done") /\ At(u, "Set", "done")
        /\ th[t].k = th[u].k
        /\ count = 1

\* C10: the step of Flush leaves no entry at all, so Count is 0 and no key is found,
\* and it is taken with the lock held exclusively: no other goroutine is inside a
\* critical section, before or after it
C10_FlushClearsAtOnce ==
    [][\A t \in DOMAIN th :
          (At(t, "Flush", "cs") /\ StepOf(t))
              => /\ items' = EmptyMap
                 /\ Cardinality(DOMAIN items') = 0
                 /\ \A k \in Keys : ~LiveAt(items', k, now')
                 /\ mu.w = t /\ mu.r = {}
                 /\ \A u \in DOMAIN th \ {t} : th[u].pc \notin {"cs", "set"}
                 /\ gcpc # "cs"]_vars

C10_Witness ==
    \E t, u \in DOMAIN th :
        /\ At(t, "Flush", "cs")
        /\ DOMAIN items = Keys
        /\ th[u].pc = "RLock"

\* C11: with a non-positive interval the cache is constructed and stays in service
\* with no reaper: the process does not end, no tick is delivered and gcLoop never
\* enters a sweep
C11_NonPositiveIntervalDisablesGc ==
    gcInterval <= 0 => Alive /\ ~tickC /\ gcpc \notin {"Lock", "cs"}

\* C13: Set reads the clock when it is called and stores now + d for a positive d,
\* no expiration for NoExpiration, and for DefaultExpiration now + defaultExpiration
\* when that is positive and no expiration when it is zero; it returns without an
\* error with the entry for its key replaced.  Add and Update resolve d the same
\* way at the instant of their write
C13_TTLResolution ==
    [][\A t \in DOMAIN th :
          LET Resolved(d, n, e) ==
                  /\ d > 0 => e = n + d
                  /\ d = NoExpiration => e = 0
                  /\ (d = DefaultExpiration /\ defaultExpiration > 0)
                        => e = n + defaultExpiration
                  /\ (d = DefaultExpiration /\ defaultExpiration = 0) => e = 0
          IN  /\ (Free(t) /\ th'[t].op = "Set" /\ th'[t].pc = "Lock")
                    => Resolved(th'[t].d, now, th'[t].e)
              /\ (At(t, "Set", "cs") /\ StepOf(t))
                    => /\ th'[t].pc = "done" /\ th'[t].err = ""
                       /\ th[t].k \in DOMAIN items'
                       /\ items'[th[t].k] = Item(th[t].v, th[t].e)
              /\ (th[t].op \in {"Add", "Update"} /\ th[t].pc = "set" /\ StepOf(t))
                    => /\ th[t].k \in DOMAIN items'
                       /\ items'[th[t].k].Object = th[t].v
                       /\ Resolved(th[t].d, now, items'[th[t].k].Expiration)]_vars

C13_Witness ==
    \E t \in DOMAIN th :
        /\ At(t, "Set", "cs")
        /\ th[t].d = DefaultExpiration /\ defaultExpiration > 0
        /\ th[t].e = now + defaultExpiration
        /\ th[t].k \in DOMAIN items /\ items[th[t].k].Expiration = 0

\* C15: DeleteExpired, with n the clock it read when called, removes exactly the
\* entries for which Expired is true at n: none of the remaining entries is expired
\* at n, and every entry not expired at n stays with its value and expiration
C15_DeleteExpiredExact ==
    [][\A t \in DOMAIN th :
          (At(t, "DeleteExpired", "cs") /\ StepOf(t))
              => /\ th'[t].pc = "done"
                 /\ DOMAIN items' \subseteq DOMAIN items
                 /\ \A k \in DOMAIN items' : ~Expired(items'[k], th[t].e)
                 /\ \A k \in DOMAIN items :
                       ~Expired(items[k], th[t].e)
                           => k \in DOMAIN items' /\ items'[k] = items[k]]_vars

C15_Witness ==
    \E t \in DOMAIN th :
        /\ At(t, "DeleteExpired", "cs")
        /\ \A k \in Keys : k \in DOMAIN items /\ Expired(items[k], th[t].e)

\* C20: StopGc returns only in the step in which gcLoop, at its select, receives the
\* signal and ends; while gcLoop is inside a sweep the sender stays blocked; once
\* gcLoop has ended a StopGc stays blocked for ever
C20_StopIsRendezvous ==
    [][\A t \in DOMAIN th :
          /\ (th'[t].op = "StopGc" /\ th'[t].pc = "done" /\ StepOf(t))
                => /\ At(t, "StopGc", "send")
                   /\ gcpc = "select" /\ gcpc' = "stopped"
          /\ (At(t, "StopGc", "send") /\ gcpc \in {"Lock", "cs", "stopped"})
                => At(t, "StopGc", "send")'
          /\ (gcpc = "stopped" => gcpc' = "stopped")]_vars

C20_Witness ==
    \E t \in DOMAIN th :
        /\ At(t, "StopGc", "send") /\ gcpc = "stopped"
        /\ \E k \in DOMAIN items : Expired(items[k], now)

Mutating == {"Set", "Add", "Update", "Delete", "DeleteExpired", "Flush", "Load"}
Reading == {"Get", "Count", "Save"}

\* the goroutine is between the acquisition and the release of the lock
InCS(t) == th[t].pc \in {"cs", "set"}

\* C14: while a mutating operation, the sweep of gcLoop included, is inside its
\* critical section it holds the lock as the writer and nothing else is inside one;
\* a reading operation is inside only as a reader with no writer; so what Get and
\* Count return is computed from entries that no write is in the middle of changing
C14_Linearizable ==
    /\ [](/\ \A t \in DOMAIN th :
                /\ (InCS(t) /\ th[t].op \in Mutating)
                      => /\ mu.w = t /\ mu.r = {} /\ gcpc # "cs"
                         /\ \A u \in DOMAIN th \ {t} : ~InCS(u)
                /\ (InCS(t) /\ th[t].op \in Reading)
                      => /\ t \in mu.r /\ mu.w = NoProc /\ gcpc # "cs"
                         /\ \A u \in DOMAIN th \ {t} : InCS(u) => th[u].op \in Reading
          /\ gcpc = "cs" => mu.w = GC /\ mu.r = {} /\ \A u \in DOMAIN th : ~InCS(u))
    /\ [][\A t \in DOMAIN th :
             /\ (At(t, "Get", "cs") /\ StepOf(t))
                   => /\ th'[t].ok = get(items, th[t].k, now).found
                      /\ th'[t].rv = get(items, th[t].k, now).v
             /\ (At(t, "Count", "cs") /\ StepOf(t))
                   => th'[t].n = Cardinality(DOMAIN items)]_vars

C14_Witness ==
    /\ At(Writer, "Load", "cs") /\ Cardinality(DOMAIN th[Writer].m) = 1
    /\ DOMAIN items = Keys
    /\ th[Reader].pc = "RLock"
    /\ gcpc = "Lock"

\* C16: the step of Save encodes the whole of the entries as they are at that
\* instant, expired ones included, while no mutating operation and no sweep is
\* inside its critical section, and it leaves the entries and their number unchanged
C16_SaveIsSnapshot ==
    [][\A t \in DOMAIN th :
          (At(t, "Save", "cs") /\ StepOf(t))
              => /\ items' = items
                 /\ Cardinality(DOMAIN items') = Cardinality(DOMAIN items)
                 /\ mu.w = NoProc /\ gcpc # "cs"
                 /\ \A u \in DOMAIN th \ {t} : ~(InCS(u) /\ th[u].op \in Mutating)
                 /\ th'[t].err = ""
                       => Len(file') = 1 /\ Decode(file'[1]) = items]_vars

C16_Witness ==
    /\ At(Reader, "Save", "done") /\ th[Reader].err = ""
    /\ Len(file) = 1 /\ DOMAIN file[1] = Keys
    /\ \E k \in Keys : Decode(file[1])[k].Expiration > 0
                          /\ Decode(file[1])[k].Expiration < now
    /\ th[Writer].pc = "cs"

\* C19: an entry that a sweep removes, in DeleteExpired called directly or by gcLoop,
\* is one that a Get at that instant reports as not found, whatever Set, Add, Update
\* or Load wrote between the sweep's reading of the clock and its scan
C19_SweepNeverRemovesLive ==
    [][\A k \in DOMAIN items :
          (/\ k \notin DOMAIN items'
           /\ \/ gcpc = "cs" /\ gcpc' # "cs"
              \/ \E t \in DOMAIN th : At(t, "DeleteExpired", "cs") /\ StepOf(t))
              => ~get(items, k, now).found]_vars

C19_Witness ==
    /\ At(Reader, "DeleteExpired", "cs")
    /\ "a" \in DOMAIN items /\ items["a"].Expiration > th[Reader].e + 1
    /\ At(Writer, "Set", "done") /\ th[Writer].k = "a"

\* C17: a Save that cannot register a value returns an error, the process goes on,
\* the read lock is released and the entries are as before; a Load that cannot
\* decode its stream returns the error without taking the lock and without changing
\* the entries or their number
C17_FailedSnapshotHarmless ==
    [][\A t \in DOMAIN th :
          /\ (At(t, "Save", "cs") /\ StepOf(t) /\ ~Registers(items))
                => /\ th'[t].pc = "done" /\ th'[t].err # "" /\ ~th'[t].ok
                   /\ Alive'
                   /\ t \notin mu'.r /\ mu'.w = NoProc
                   /\ items' = items
          /\ (Free(t) /\ th'[t].op = "Load" /\ StepOf(t) /\ Len(file) = 0)
                => /\ th'[t].pc = "done" /\ th'[t].err # "" /\ ~th'[t].ok
                   /\ Alive'
                   /\ mu' = mu
                   /\ items' = items
                   /\ Cardinality(DOMAIN items') = Cardinality(DOMAIN items)]_vars

C17_Witness ==
    \E t \in DOMAIN th :
        /\ At(t, "Save", "done") /\ th[t].err = "gob"
        /\ DOMAIN items = Keys /\ items["a"].Object = Nil /\ items["b"].Object = "y"
        /\ mu = MuFree /\ file = <<>>

\* C18: every call of an operation on the entries that has been made returns; a
\* goroutine that has returned holds the lock neither as writer nor as reader, on
\* the error returns of Add and Update too; and a goroutine that asks for the lock
\* does not hold it
C18_DeadlockFree ==
    /\ \A t \in {Writer, Reader} :
          (th[t].pc \in {"Lock", "RLock", "cs", "set"}) ~> (th[t].pc = "done")
    /\ [](\A t \in DOMAIN th :
             /\ th[t].pc \in {"idle", "done", "Lock", "RLock"}
                   => mu.w # t /\ t \notin mu.r
             /\ InCS(t) => mu.w = t \/ t \in mu.r)

C18_Witness ==
    /\ At(Writer, "Add", "done") /\ th[Writer].err = "exists"
    /\ At(Reader, "DeleteExpired", "Lock")
    /\ gcpc = "cs"

\* C12: a gcLoop that has not been stopped has its ticker armed and goes from every
\* tick it is offered to a sweep, unless the stop signal comes first; the first
\* StopGc returns, gcLoop has ended when it returns and stays ended, with its
\* ticker stopped, so that no sweep follows
C12_ReaperLifecycle ==
    /\ [](/\ gcpc \in {"select", "Lock", "cs"} => tickAt > now
          /\ gcpc = "stopped" => tickAt = 0
          /\ At("t1", "StopGc", "done") => gcpc = "stopped")
    /\ [][gcpc = "stopped" => gcpc' = "stopped" /\ gcNow' = gcNow /\ mu'.w # GC]_vars
    /\ (gcpc = "select" /\ tickC) ~> (gcpc = "cs" \/ gcpc = "stopped")
    /\ (gcpc = "cs") ~> (gcpc = "select")
    /\ (At("t1", "StopGc", "send") /\ gcpc # "stopped") ~> At("t1", "StopGc", "done")

C12_Witness ==
    /\ th["t1"].op = "Set" /\ th["t1"].pc = "done"
    /\ gcpc = "stopped" /\ tickAt = 0
    /\ \A k \in Keys : k \in DOMAIN items /\ Expired(items[k], now)

====
